---- MODULE Spec2Model ----
(***************************************************************************)
(* Model of src/stress-test.ts: the StressTestRunner of the WhisperLive    *)
(* TypeScript client.  runStressTest launches numberOfClients sessions     *)
(* (runSingleClient), each racing its client work against a 180000 ms      *)
(* timer, and races Promise.all of the sessions against a 210000 ms timer. *)
(*                                                                         *)
(* One action is one macrotask of the JavaScript event loop (a timer       *)
(* callback, the settling of a client operation) together with all the     *)
(* promise reactions (microtasks) it triggers, which run to completion     *)
(* before the next macrotask.  The synchronous prefix of runStressTest is  *)
(* split into Start, one Launch per loop iteration and AwaitRace; nothing  *)
(* else is enabled while it runs.                                          *)
(*                                                                         *)
(* Strings are sequences of one-character strings so that includes, split  *)
(* and concatenation are computed.  An optional field (endTime?, error?)   *)
(* is <<>> when absent and <<v>> when present.                             *)
(***************************************************************************)
EXTENDS Integers, Sequences, FiniteSets, TLC

(* ---------------------------- bounds ---------------------------------- *)
\* largest numberOfClients explored (the constructor takes any number)
MaxClients == 2
\* largest numberOfClients explored under the fair specification
MaxFairClients == 1

(* ----------------------- program constants ---------------------------- *)
PerClientTimeoutMs == 180000
GlobalTimeoutMs == 210000

\* the clock is observed at multiples of the per-client timeout, until the
\* last deadline has passed
TickMs == PerClientTimeoutMs

(* ------------------------------ strings ------------------------------- *)
TimedOutMarker == <<"t", "i", "m", "e", "d", " ", "o", "u", "t">>
WebSocketMarker == <<"W", "e", "b", "S", "o", "c", "k", "e", "t">>
ServerNotAvailableMarker == <<"S", "e", "r", "v", "e", "r", " ", "i", "s", " ", "n", "o", "t", " ", "a", "v", "a", "i", "l", "a", "b", "l", "e">>
ClientPrefix == <<"C", "l", "i", "e", "n", "t", " ">>
TimedOutSuffix == <<" ", "t", "i", "m", "e", "d", " ", "o", "u", "t", " ", "a", "f", "t", "e", "r", " ", "3", " ", "m", "i", "n", "u", "t", "e", "s">>
GlobalTimeoutMessage == <<"E", "n", "t", "i", "r", "e", " ", "s", "t", "r", "e", "s", "s", " ", "t", "e", "s", "t", " ", "t", "i", "m", "e", "d", " ", "o", "u", "t", " ", "a", "f", "t", "e", "r", " ", "3", ".", "5", " ", "m", "i", "n", "u", "t", "e", "s">>
UndefinedText == <<"u", "n", "d", "e", "f", "i", "n", "e", "d">>
UnknownBucket == <<"U", "n", "k", "n", "o", "w", "n">>
TimeoutBucket == <<"T", "i", "m", "e", "o", "u", "t">>
WebSocketErrorBucket == <<"W", "e", "b", "S", "o", "c", "k", "e", "t", " ", "E", "r", "r", "o", "r">>
ServerUnavailableBucket == <<"S", "e", "r", "v", "e", "r", " ", "U", "n", "a", "v", "a", "i", "l", "a", "b", "l", "e">>
ConnectionRefusedText == <<"C", "o", "n", "n", "e", "c", "t", "i", "o", "n", " ", "r", "e", "f", "u", "s", "e", "d">>

Digits == <<"0", "1", "2", "3", "4", "5", "6", "7", "8", "9">>

\* `${clientId}`: the decimal digits of a natural number
RECURSIVE NumberToString(_)
NumberToString(n) ==
    IF n < 10 THEN <<Digits[n + 1]>>
    ELSE NumberToString(n \div 10) \o <<Digits[(n % 10) + 1]>>

\* String.prototype.includes
Includes(s, sub) ==
    \E k \in 0..(Len(s) - Len(sub)) : SubSeq(s, k + 1, k + Len(sub)) = sub

\* s.split(':')[0]: the text before the first ':' (all of s when it has none)
SplitFirst(s) ==
    IF \E k \in 1..Len(s) : s[k] = ":"
    THEN LET k == CHOOSE j \in 1..Len(s) : s[j] = ":" /\ \A h \in 1..(j - 1) : s[h] # ":"
         IN  SubSeq(s, 1, k - 1)
    ELSE s

(* --------------------------- thrown values ---------------------------- *)
\* what a client operation can throw: an Error with a message, a bare
\* string, or undefined
ErrorOf(m) == [kind |-> "Error", message |-> m]
StringOf(m) == [kind |-> "string", message |-> m]
UndefinedValue == [kind |-> "undefined", message |-> <<>>]

ThrownValues == {ErrorOf(ConnectionRefusedText), UndefinedValue}

\* error instanceof Error ? error.message : String(error)
ErrorText(e) ==
    IF e.kind = "Error" THEN e.message
    ELSE IF e.kind = "undefined" THEN UndefinedText
    ELSE e.message

\* variant: the timer rejects with a message that names no time-out
TimeoutErrorUnmarked(clientId) ==
    ErrorOf(ClientPrefix \o NumberToString(clientId))

\* new Error(`Client ${clientId} timed out after 3 minutes`)
TimeoutError(clientId) ==
    ErrorOf(ClientPrefix \o NumberToString(clientId) \o TimedOutSuffix)

GlobalTimeoutError == ErrorOf(GlobalTimeoutMessage)

(* --------------------------- outcome records -------------------------- *)
\* const result: StressTestResult = { clientId, success: false, startTime: Date.now() }
NewResult(clientId, t) ==
    [clientId |-> clientId, success |-> FALSE, startTime |-> t,
     endTime |-> <<>>, duration |-> <<>>, error |-> <<>>]

\* variant: the success path records the times but leaves success false
OnCompletedNotMarked(r, t) ==
    [r EXCEPT !.endTime = <<t>>, !.duration = <<t - r.startTime>>]

\* the statements after the awaited race, when it resolved
OnCompleted(r, t) ==
    [r EXCEPT !.endTime = <<t>>, !.duration = <<t - r.startTime>>, !.success = TRUE]

\* variant: the catch block records the error but no duration
OnFailedWithoutDuration(r, t, e) ==
    [r EXCEPT !.endTime = <<t>>, !.error = <<ErrorText(e)>>]

\* the catch block of runSingleClient, when the race rejected with e
OnFailed(r, t, e) ==
    [r EXCEPT !.endTime = <<t>>, !.duration = <<t - r.startTime>>,
              !.error = <<ErrorText(e)>>]

\* variant: the catch block rethrows, so a failed session rejects its promise
RunSingleClientRethrows(r) ==
    IF r.success THEN [state |-> "fulfilled", value |-> <<r>>]
    ELSE [state |-> "rejected", value |-> <<ErrorOf(r.error[1])>>]

\* the promise runSingleClient returns, once its body has run to `return result`
RunSingleClientReturn(r) == [state |-> "fulfilled", value |-> <<r>>]

PendingPromise == [state |-> "pending", value |-> <<>>]

\* variant: the values are collected in the order in which the sessions ended
PromiseAllBySettling(promises) ==
    LET n == Len(promises)
        v(k) == promises[k].value[1]
        rank(k) == 1 + Cardinality({j \in 1..n :
                        \/ v(j).endTime[1] < v(k).endTime[1]
                        \/ v(j).endTime[1] = v(k).endTime[1] /\ j < k})
    IN  [p \in 1..n |-> v(CHOOSE k \in 1..n : rank(k) = p)]

\* Promise.all(clientPromises) when every promise is fulfilled: the values in
\* the order of the promises, not of their settling
PromiseAll(promises) == [k \in 1..Len(promises) |-> promises[k].value[1]]

(* ----------------------------- printResults --------------------------- *)
\* Array.prototype.filter
RECURSIVE Filter(_, _)
Filter(rs, keepSuccess) ==
    IF rs = <<>> THEN <<>>
    ELSE IF Head(rs).success = keepSuccess
         THEN <<Head(rs)>> \o Filter(Tail(rs), keepSuccess)
         ELSE Filter(Tail(rs), keepSuccess)

\* ((successful.length / numberOfClients) * 100).toFixed(1), in tenths of a
\* percent; 0 / 0 is NaN and NaN.toFixed(1) is "NaN"
SuccessRate(s, n) ==
    IF n = 0 THEN [nan |-> TRUE, tenths |-> 0]
    ELSE [nan |-> FALSE, tenths |-> (2000 * s + n) \div (2 * n)]

RECURSIVE SumDurations(_)
SumDurations(rs) ==
    IF rs = <<>> THEN 0 ELSE Head(rs).duration[1] + SumDurations(Tail(rs))

\* TIMING STATISTICS, printed only when successful.length > 0
TimingStatistics(successful) ==
    IF Len(successful) > 0
    THEN LET durations == {successful[k].duration[1] : k \in 1..Len(successful)}
             n == Len(successful)
         IN  <<[avg |-> (2 * SumDurations(successful) + n) \div (2 * n),
                min |-> CHOOSE d \in durations : \A x \in durations : d <= x,
                max |-> CHOOSE d \in durations : \A x \in durations : d >= x]>>
    ELSE <<>>

\* variant: the transport marker is looked for before the time-out marker
ErrorTypeWebSocketFirst(r) ==
    IF r.error # <<>> /\ r.error[1] # <<>>
    THEN LET error == r.error[1]
         IN  IF Includes(error, WebSocketMarker) THEN WebSocketErrorBucket
             ELSE IF Includes(error, TimedOutMarker) THEN TimeoutBucket
             ELSE IF Includes(error, ServerNotAvailableMarker) THEN ServerUnavailableBucket
             ELSE SplitFirst(error)
    ELSE UnknownBucket

\* the bucket of one failed outcome in FAILURE ANALYSIS
ErrorType(r) ==
    IF r.error # <<>> /\ r.error[1] # <<>>
    THEN LET error == r.error[1]
         IN  IF Includes(error, TimedOutMarker) THEN TimeoutBucket
             ELSE IF Includes(error, WebSocketMarker) THEN WebSocketErrorBucket
             ELSE IF Includes(error, ServerNotAvailableMarker) THEN ServerUnavailableBucket
             ELSE SplitFirst(error)
    ELSE UnknownBucket

\* variant: errorCounts.set(errorType, 1), a bucket is marked and not counted
RECURSIVE CountErrorsMarks(_, _)
CountErrorsMarks(failed, errorCounts) ==
    IF failed = <<>> THEN errorCounts
    ELSE LET errorType == ErrorType(Head(failed))
         IN  CountErrorsMarks(Tail(failed),
                              [b \in DOMAIN errorCounts \cup {errorType} |->
                                  IF b = errorType THEN 1 ELSE errorCounts[b]])

\* errorCounts.set(errorType, (errorCounts.get(errorType) || 0) + 1) over failed
RECURSIVE CountErrors(_, _)
CountErrors(failed, errorCounts) ==
    IF failed = <<>> THEN errorCounts
    ELSE LET errorType == ErrorType(Head(failed))
             old == IF errorType \in DOMAIN errorCounts THEN errorCounts[errorType] ELSE 0
         IN  CountErrors(Tail(failed),
                         [b \in DOMAIN errorCounts \cup {errorType} |->
                             IF b = errorType THEN old + 1 ELSE errorCounts[b]])

EmptyMap == [b \in {} |-> 0]

\* FAILURE ANALYSIS, computed only when failed.length > 0
FailureAnalysis(failed) ==
    IF Len(failed) > 0 THEN CountErrors(failed, EmptyMap) ELSE EmptyMap

\* variant: the 50% threshold is tested before the 80% one
RecommendationLoose(s, n) ==
    IF s = n THEN "excellent"
    ELSE IF 2 * s >= n THEN "good"
    ELSE IF 10 * s >= 8 * n THEN "moderate"
    ELSE "poor"

\* RECOMMENDATIONS: thresholds 100% / >= 80% / >= 50% of numberOfClients
Recommendation(s, n) ==
    IF s = n THEN "excellent"
    ELSE IF 10 * s >= 8 * n THEN "good"
    ELSE IF 2 * s >= n THEN "moderate"
    ELSE "poor"

\* failed.filter(r => r.error?.includes('timed out')).length
TimeoutFailures(failed) ==
    Cardinality({k \in 1..Len(failed) :
                    failed[k].error # <<>> /\ Includes(failed[k].error[1], TimedOutMarker)})

\* what one call printResults(totalTime) reports of this.results
PrintResults(rs, n, totalTime) ==
    LET successful == Filter(rs, TRUE)
        failed == Filter(rs, FALSE)
    IN  [results |-> rs,
         totalTime |-> totalTime,
         total |-> n,
         successful |-> Len(successful),
         failed |-> Len(failed),
         rate |-> SuccessRate(Len(successful), n),
         timing |-> TimingStatistics(successful),
         errorCounts |-> FailureAnalysis(failed),
         recommendation |-> Recommendation(Len(successful), n),
         timeoutFailures |-> TimeoutFailures(failed)]

(* -------------------------------- state ------------------------------- *)
VARIABLES
    numberOfClients,  \* this.numberOfClients
    now,              \* the clock, in ms since the construction of the runner
    pc,               \* runStressTest: "idle", "launching", "waiting", "done", "failed"
    i,                \* the loop variable of the launch loop
    startTime,        \* const startTime of runStressTest
    globalTimer,      \* the 210000 ms timer: [state, deadline]
    results,          \* this.results
    reported,         \* the calls of printResults so far, each with what it reported
    thrown,           \* the error runStressTest rethrew, if any
    result,           \* result[k]: the result object of runSingleClient(k)
    client,           \* client[k]: how far the client of session k got
    timer,            \* timer[k]: the 180000 ms timer of session k: [state, deadline]
    race,             \* race[k]: "pending", or which side settled the race first
    clientPromises,   \* clientPromises[k]: the promise runSingleClient(k) returned
    inOrder,          \* history: no timer has fired while one with an earlier deadline was armed
    calls,            \* history: calls[k]: the calls made on the client of session k and their ends
    main,             \* require.main === module: the runner is driven by the entry point
    audioFileExists,  \* fs.existsSync(audioFile)
    exitCode          \* <<c>> once process.exit(c) was called

vars == <<numberOfClients, now, pc, i, startTime, globalTimer, results, reported,
          thrown, result, client, timer, race, clientPromises, inOrder, calls,
          main, audioFileExists, exitCode>>

configVars == <<numberOfClients, main, audioFileExists>>
sessionVars == <<result, client, timer, race, clientPromises, calls>>
batchVars == <<pc, results, reported, thrown, exitCode>>

Launched == DOMAIN result

UnarmedTimer == [state |-> "unarmed", deadline |-> 0]

\* nothing has run yet
InitState ==
    /\ now = 0
    /\ pc = "idle"
    /\ i = 0
    /\ startTime = 0
    /\ globalTimer = UnarmedTimer
    /\ results = <<>>
    /\ reported = <<>>
    /\ thrown = <<>>
    /\ result = <<>>
    /\ client = <<>>
    /\ timer = <<>>
    /\ race = <<>>
    /\ clientPromises = <<>>
    /\ inOrder = TRUE
    /\ calls = <<>>
    /\ exitCode = <<>>

\* a runner constructed by an importer of the exported class
Init ==
    /\ numberOfClients \in 0..MaxClients
    /\ main = FALSE
    /\ audioFileExists = TRUE
    /\ InitState

\* the module run as the main module: the entry point checks the audio file
\* and constructs the runner (with 10 clients in the source; the number is
\* left to the bound here)
EntryInit ==
    /\ numberOfClients \in 1..MaxClients
    /\ main = TRUE
    /\ audioFileExists \in BOOLEAN
    /\ InitState

(* ---------------------- runStressTest continuations ------------------- *)
\* variant: the entry point logs the failure of the batch and returns
EntryCatchLogsOnly == UNCHANGED exitCode

\* the catch block of the entry point: process.exit(1) when runStressTest
\* of the runner rejects (an importer of the class gets the rejection)
EntryCatch == exitCode' = IF main THEN <<1>> ELSE exitCode

\* the catch block of runStressTest: report this.results if it holds any, rethrow
BatchCatch(error) ==
    /\ pc' = "failed"
    /\ EntryCatch
    /\ reported' = IF Len(results) > 0
                   THEN Append(reported, PrintResults(results, numberOfClients, now - startTime))
                   ELSE reported
    /\ thrown' = <<error>>
    /\ UNCHANGED results

\* the statements after the awaited race, when Promise.all won it
BatchThen(values) ==
    /\ pc' = "done"
    /\ results' = values
    /\ reported' = Append(reported, PrintResults(values, numberOfClients, now - startTime))
    /\ UNCHANGED <<thrown, exitCode>>

\* variant: a failed outcome is treated as an error of the batch
AwaitedRaceFailFast(ps) ==
    IF \E k \in 1..Len(ps) : ps[k].state = "fulfilled" /\ ~ps[k].value[1].success
    THEN BatchCatch(ErrorOf((ps[CHOOSE k \in 1..Len(ps) :
                 ps[k].state = "fulfilled" /\ ~ps[k].value[1].success].value[1]).error[1]))
    ELSE IF \A k \in 1..Len(ps) : ps[k].state = "fulfilled"
    THEN BatchThen(PromiseAll(ps))
    ELSE pc' = "waiting" /\ UNCHANGED <<results, reported, thrown, exitCode>>

\* await Promise.race([Promise.all(clientPromises), globalTimeoutPromise]) while
\* the global timer has not fired: Promise.all rejects with the first rejected
\* promise, resolves when all are fulfilled, and is pending otherwise
AwaitedRace(ps) ==
    IF \E k \in 1..Len(ps) : ps[k].state = "rejected"
    THEN BatchCatch(ps[CHOOSE k \in 1..Len(ps) : ps[k].state = "rejected"].value[1])
    ELSE IF \A k \in 1..Len(ps) : ps[k].state = "fulfilled"
    THEN BatchThen(PromiseAll(ps))
    ELSE pc' = "waiting" /\ UNCHANGED <<results, reported, thrown, exitCode>>

(* ----------------------- runSingleClient continuations ---------------- *)
\* variant: runSingleClient also pushes its result object to this.results
SettleSessionPushes(k, r, winner) ==
    LET ps == [clientPromises EXCEPT ![k] = RunSingleClientReturn(r)]
    IN  /\ result' = [result EXCEPT ![k] = r]
        /\ race' = [race EXCEPT ![k] = winner]
        /\ clientPromises' = ps
        /\ IF pc = "waiting" /\ \A j \in 1..Len(ps) : ps[j].state = "fulfilled"
           THEN AwaitedRace(ps)
           ELSE /\ results' = Append(results, r)
                /\ UNCHANGED <<pc, reported, thrown, exitCode>>

\* the race of session k settles first for `winner` and runSingleClient runs on
\* to its return with the result object r; a race that is still awaited by
\* runStressTest reacts in the same turn
SettleSession(k, r, winner) ==
    LET ps == [clientPromises EXCEPT ![k] = RunSingleClientReturn(r)]
    IN  /\ result' = [result EXCEPT ![k] = r]
        /\ race' = [race EXCEPT ![k] = winner]
        /\ clientPromises' = ps
        /\ IF pc = "waiting" THEN AwaitedRace(ps) ELSE UNCHANGED batchVars

\* variant: the result object is written by the client sequence itself, not
\* by the code after the race
WorkFulfilledUnraced(k) ==
    SettleSession(k, OnCompleted(result[k], now), "work")

\* the async function given to the race settles: fulfilled, or rejected with e
WorkFulfilled(k) ==
    IF race[k] = "pending"
    THEN SettleSession(k, OnCompleted(result[k], now), "work")
    ELSE UNCHANGED <<result, race, clientPromises, batchVars>>

WorkRejected(k, e) ==
    IF race[k] = "pending"
    THEN SettleSession(k, OnFailed(result[k], now, e), "work")
    ELSE UNCHANGED <<result, race, clientPromises, batchVars>>

frameVars == <<configVars, now, i, startTime, globalTimer, timer, inOrder>>

(* -------------------------------- actions ----------------------------- *)
\* runStressTest up to the launch loop: startTime, the global timer
Start ==
    /\ pc = "idle"
    /\ exitCode = <<>>
    /\ main => audioFileExists
    /\ pc' = "launching"
    /\ startTime' = now
    /\ globalTimer' = [state |-> "armed", deadline |-> now + GlobalTimeoutMs]
    /\ i' = 1
    /\ UNCHANGED <<configVars, now, results, reported, thrown, exitCode, sessionVars, inOrder>>

\* variant: the per-session deadline is twice as long, beyond the global one
LaunchLongDeadline ==
    /\ pc = "launching"
    /\ i <= numberOfClients
    /\ result' = Append(result, NewResult(i, now))
    /\ timer' = Append(timer, [state |-> "armed", deadline |-> now + 2 * PerClientTimeoutMs])
    /\ client' = Append(client, "connecting")
    /\ race' = Append(race, "pending")
    /\ clientPromises' = Append(clientPromises, PendingPromise)
    /\ calls' = Append(calls, <<"connect">>)
    /\ i' = i + 1
    /\ UNCHANGED <<configVars, now, startTime, globalTimer, batchVars, inOrder>>

\* one iteration of the loop: runSingleClient(i) runs synchronously up to
\* the call of client.connect() and returns its pending promise
Launch ==
    /\ pc = "launching"
    /\ i <= numberOfClients
    /\ result' = Append(result, NewResult(i, now))
    /\ timer' = Append(timer, [state |-> "armed", deadline |-> now + PerClientTimeoutMs])
    /\ client' = Append(client, "connecting")
    /\ race' = Append(race, "pending")
    /\ clientPromises' = Append(clientPromises, PendingPromise)
    /\ calls' = Append(calls, <<"connect">>)
    /\ i' = i + 1
    /\ UNCHANGED <<configVars, now, startTime, globalTimer, batchVars, inOrder>>

\* variant: the race is awaited inside the loop, after the first launch
AwaitRaceInLoop ==
    /\ pc = "launching"
    /\ i > 1
    /\ AwaitedRace(clientPromises)
    /\ UNCHANGED <<frameVars, sessionVars>>

\* the loop is over: the race is awaited (with no client, Promise.all([])
\* is already fulfilled and the race resolves in the same turn)
AwaitRace ==
    /\ pc = "launching"
    /\ i > numberOfClients
    /\ AwaitedRace(clientPromises)
    /\ UNCHANGED <<frameVars, sessionVars>>

\* client.connect() resolves: processAudioFile is called
ConnectResolved(k) ==
    /\ pc # "launching"
    /\ exitCode = <<>>
    /\ client[k] = "connecting"
    /\ client' = [client EXCEPT ![k] = "processing"]
    /\ calls' = [calls EXCEPT ![k] = @ \o <<"connected", "process">>]
    /\ UNCHANGED <<frameVars, batchVars, result, race, clientPromises>>

\* client.connect() throws or rejects with e
ConnectRejected(k, e) ==
    /\ pc # "launching"
    /\ exitCode = <<>>
    /\ client[k] = "connecting"
    /\ client' = [client EXCEPT ![k] = "connectFailed"]
    /\ calls' = [calls EXCEPT ![k] = @ \o <<"connectThrew">>]
    /\ WorkRejected(k, e)
    /\ UNCHANGED frameVars

\* client.processAudioFile() resolves and client.disconnect() returns
ProcessResolved(k) ==
    /\ pc # "launching"
    /\ exitCode = <<>>
    /\ client[k] = "processing"
    /\ client' = [client EXCEPT ![k] = "disconnected"]
    /\ calls' = [calls EXCEPT ![k] = @ \o <<"processed", "disconnect">>]
    /\ WorkFulfilled(k)
    /\ UNCHANGED frameVars

\* client.processAudioFile() resolves and client.disconnect() throws e
DisconnectThrew(k, e) ==
    /\ pc # "launching"
    /\ exitCode = <<>>
    /\ client[k] = "processing"
    /\ client' = [client EXCEPT ![k] = "disconnectFailed"]
    /\ calls' = [calls EXCEPT ![k] = @ \o <<"processed", "disconnect", "disconnectThrew">>]
    /\ WorkRejected(k, e)
    /\ UNCHANGED frameVars

\* client.processAudioFile() throws or rejects with e
ProcessRejected(k, e) ==
    /\ pc # "launching"
    /\ exitCode = <<>>
    /\ client[k] = "processing"
    /\ client' = [client EXCEPT ![k] = "processFailed"]
    /\ calls' = [calls EXCEPT ![k] = @ \o <<"processThrew">>]
    /\ WorkRejected(k, e)
    /\ UNCHANGED frameVars

\* the deadlines of the timers that are armed, other than d's own
ArmedDeadlines ==
    {timer[k].deadline : k \in {j \in DOMAIN timer : timer[j].state = "armed"}}
        \cup (IF globalTimer.state = "armed" THEN {globalTimer.deadline} ELSE {})

FiresInOrder(deadline) == \A d \in ArmedDeadlines : deadline <= d

\* variant: the timer is not part of the race, its firing settles nothing
TimerFiredUnraced(k) ==
    /\ pc # "launching"
    /\ exitCode = <<>>
    /\ timer[k].state = "armed"
    /\ now >= timer[k].deadline
    /\ timer' = [timer EXCEPT ![k].state = "fired"]
    /\ inOrder' = (inOrder /\ FiresInOrder(timer[k].deadline))
    /\ UNCHANGED <<result, race, clientPromises, batchVars>>
    /\ UNCHANGED <<configVars, now, i, startTime, globalTimer, client, calls>>

\* variant: the timer that wins the race also aborts the client
TimerFiredCancels(k) ==
    /\ pc # "launching"
    /\ exitCode = <<>>
    /\ timer[k].state = "armed"
    /\ now >= timer[k].deadline
    /\ timer' = [timer EXCEPT ![k].state = "fired"]
    /\ inOrder' = (inOrder /\ FiresInOrder(timer[k].deadline))
    /\ IF race[k] = "pending"
       THEN /\ SettleSession(k, OnFailed(result[k], now, TimeoutError(k)), "timer")
            /\ client' = [client EXCEPT ![k] = "cancelled"]
       ELSE UNCHANGED <<result, race, clientPromises, batchVars, client>>
    /\ UNCHANGED <<configVars, now, i, startTime, globalTimer, calls>>

\* variant: the catch block disconnects the client of a timed-out session
TimerFiredDisconnects(k) ==
    /\ pc # "launching"
    /\ exitCode = <<>>
    /\ timer[k].state = "armed"
    /\ now >= timer[k].deadline
    /\ timer' = [timer EXCEPT ![k].state = "fired"]
    /\ inOrder' = (inOrder /\ FiresInOrder(timer[k].deadline))
    /\ IF race[k] = "pending"
       THEN /\ SettleSession(k, OnFailed(result[k], now, TimeoutError(k)), "timer")
            /\ calls' = [calls EXCEPT ![k] = @ \o <<"disconnect">>]
       ELSE UNCHANGED <<result, race, clientPromises, batchVars, calls>>
    /\ UNCHANGED <<configVars, now, i, startTime, globalTimer, client>>

\* the callback of the timer of session k: timeoutPromise rejects
TimerFired(k) ==
    /\ pc # "launching"
    /\ exitCode = <<>>
    /\ timer[k].state = "armed"
    /\ now >= timer[k].deadline
    /\ timer' = [timer EXCEPT ![k].state = "fired"]
    /\ inOrder' = (inOrder /\ FiresInOrder(timer[k].deadline))
    /\ IF race[k] = "pending"
       THEN SettleSession(k, OnFailed(result[k], now, TimeoutError(k)), "timer")
       ELSE UNCHANGED <<result, race, clientPromises, batchVars>>
    /\ UNCHANGED <<configVars, now, i, startTime, globalTimer, client, calls>>

\* the callback of the global timer: globalTimeoutPromise rejects
GlobalTimerFired ==
    /\ pc # "launching"
    /\ exitCode = <<>>
    /\ globalTimer.state = "armed"
    /\ now >= globalTimer.deadline
    /\ globalTimer' = [globalTimer EXCEPT !.state = "fired"]
    /\ inOrder' = (inOrder /\ FiresInOrder(globalTimer.deadline))
    /\ IF pc = "waiting" THEN BatchCatch(GlobalTimeoutError) ELSE UNCHANGED batchVars
    /\ UNCHANGED <<configVars, now, i, startTime, sessionVars>>

\* time passes between two turns of the event loop
Tick ==
    /\ pc \in {"waiting", "done", "failed"}
    /\ exitCode = <<>>
    /\ now < globalTimer.deadline
    /\ now' = now + TickMs
    /\ UNCHANGED <<configVars, batchVars, i, startTime, globalTimer, sessionVars, inOrder>>

Next ==
    \/ Start
    \/ Launch
    \/ AwaitRace
    \/ \E k \in Launched : ConnectResolved(k)
    \/ \E k \in Launched, e \in ThrownValues : ConnectRejected(k, e)
    \/ \E k \in Launched : ProcessResolved(k)
    \/ \E k \in Launched, e \in ThrownValues : DisconnectThrew(k, e)
    \/ \E k \in Launched, e \in ThrownValues : ProcessRejected(k, e)
    \/ \E k \in Launched : TimerFired(k)
    \/ GlobalTimerFired
    \/ Tick

Spec == Init /\ [][Next]_vars

\* the entry point finds no audio file: process.exit(1) before a runner exists
AudioFileMissing ==
    /\ pc = "idle"
    /\ exitCode = <<>>
    /\ main /\ ~audioFileExists
    /\ exitCode' = <<1>>
    /\ UNCHANGED <<frameVars, sessionVars, pc, results, reported, thrown>>

EntryNext == AudioFileMissing \/ Next

\* the module run as the main module
EntrySpec == EntryInit /\ [][EntryNext]_vars

\* the timers fire and time passes; the client operations may never settle
FairInit == Init /\ numberOfClients <= MaxFairClients

FairSpec ==
    /\ FairInit
    /\ [][Next]_vars
    /\ WF_vars(Start)
    /\ WF_vars(Launch)
    /\ WF_vars(AwaitRace)
    /\ WF_vars(Tick)
    /\ WF_vars(GlobalTimerFired)
    /\ \A k \in 1..MaxClients : WF_vars(k \in Launched /\ TimerFired(k))

(* ------------------------- printResults on its own -------------------- *)
\* largest outcome set given to printResults
MaxOutcomes == 2

\* error texts a failed outcome can carry: none or several of the markers,
\* none or several ':', the empty message, the session timer's message
WebSocketTimedOutText == <<"W", "e", "b", "S", "o", "c", "k", "e", "t", " ", "t", "i", "m", "e", "d", " ", "o", "u", "t">>
ServerWebSocketText == <<"S", "e", "r", "v", "e", "r", " ", "i", "s", " ", "n", "o", "t", " ", "a", "v", "a", "i", "l", "a", "b", "l", "e", ":", " ", "W", "e", "b", "S", "o", "c", "k", "e", "t">>
ServerBusyText == <<"S", "e", "r", "v", "e", "r", " ", "i", "s", " ", "n", "o", "t", " ", "a", "v", "a", "i", "l", "a", "b", "l", "e", ":", " ", "b", "u", "s", "y">>
ServerTimedOutText == <<"S", "e", "r", "v", "e", "r", " ", "i", "s", " ", "n", "o", "t", " ", "a", "v", "a", "i", "l", "a", "b", "l", "e", ":", " ", "t", "i", "m", "e", "d", " ", "o", "u", "t">>
ResetText == <<"E", "C", "O", "N", "N", "R", "E", "S", "E", "T", ":", " ", "r", "e", "a", "d", ":", " ", "1", "0", "4">>
ErrorTexts ==
    {<<>>, ConnectionRefusedText, UndefinedText, WebSocketTimedOutText, ServerWebSocketText,
     ServerBusyText, ServerTimedOutText, ResetText, TimeoutError(1).message}

\* the outcomes runSingleClient(k) can return at time 0
OutcomesOf(k) ==
    {OnCompleted(NewResult(k, 0), 0)}
        \cup {OnFailed(NewResult(k, 0), 0, ErrorOf(m)) : m \in ErrorTexts}

\* the outcome sets of n sessions
RECURSIVE OutcomeSets(_)
OutcomeSets(n) ==
    IF n = 0 THEN {<<>>}
    ELSE {Append(rs, r) : rs \in OutcomeSets(n - 1), r \in OutcomesOf(n)}

\* a runner whose sessions have all settled, about to call printResults
ReportInit ==
    /\ numberOfClients \in 0..MaxOutcomes
    /\ results \in OutcomeSets(numberOfClients)
    /\ main = FALSE
    /\ audioFileExists = TRUE
    /\ now = 0
    /\ pc = "reporting"
    /\ i = numberOfClients + 1
    /\ startTime = 0
    /\ globalTimer = [state |-> "armed", deadline |-> GlobalTimeoutMs]
    /\ reported = <<>>
    /\ thrown = <<>>
    /\ result = results
    /\ client = [k \in 1..numberOfClients |->
                    IF results[k].success THEN "disconnected" ELSE "connectFailed"]
    /\ timer = [k \in 1..numberOfClients |-> [state |-> "armed", deadline |-> PerClientTimeoutMs]]
    /\ race = [k \in 1..numberOfClients |-> "work"]
    /\ clientPromises = [k \in 1..numberOfClients |-> RunSingleClientReturn(results[k])]
    /\ inOrder = TRUE
    /\ calls = [k \in 1..numberOfClients |->
                   IF results[k].success
                   THEN <<"connect", "connected", "process", "processed", "disconnect">>
                   ELSE <<"connect", "connectThrew">>]
    /\ exitCode = <<>>

\* this.printResults(totalTime)
PrintResultsCall ==
    /\ pc = "reporting"
    /\ pc' = "done"
    /\ reported' = Append(reported, PrintResults(results, numberOfClients, now - startTime))
    /\ UNCHANGED <<frameVars, sessionVars, results, thrown, exitCode>>

ReportSpec == ReportInit /\ [][PrintResultsCall]_vars

(* ------------------- one failing session among successes -------------- *)
\* number of sessions of the scenario
ScenarioClients == 3

ScenarioInit ==
    /\ numberOfClients = ScenarioClients
    /\ main = FALSE
    /\ audioFileExists = TRUE
    /\ InitState

\* the client of session 2 throws "Connection refused" before time passes,
\* the clients of the other sessions complete, and every session is settled
\* before its timer and the global timer are served
ScenarioNext ==
    \/ Start
    \/ Launch
    \/ AwaitRace
    \/ \E k \in Launched : (k = 2 => now = 0) /\ ConnectResolved(k)
    \/ \E k \in Launched \ {2} : ProcessResolved(k)
    \/ 2 \in Launched /\ now = 0 /\ ConnectRejected(2, ErrorOf(ConnectionRefusedText))
    \/ 2 \in Launched /\ now = 0 /\ ProcessRejected(2, ErrorOf(ConnectionRefusedText))
    \/ 2 \in Launched /\ now = 0 /\ DisconnectThrew(2, ErrorOf(ConnectionRefusedText))
    \/ \E k \in Launched : race[k] # "pending" /\ TimerFired(k)
    \/ pc = "done" /\ GlobalTimerFired
    \/ Tick

ScenarioSpec == ScenarioInit /\ [][ScenarioNext]_vars

(* ------------------------------ properties ---------------------------- *)
Settled(k) == clientPromises[k].state = "fulfilled"
Outcome(k) == clientPromises[k].value[1]
AllSettled == Len(clientPromises) = numberOfClients /\ \A k \in Launched : Settled(k)
ClientPending(k) == client[k] \in {"connecting", "processing"}
ClientFailed(k) == client[k] \in {"connectFailed", "processFailed", "disconnectFailed"}

\* C1: runSingleClient(id) never rejects: whatever the client does and whether
\* or not the timer fires, once the session is decided its promise is
\* fulfilled with the result object, whose clientId is id.
C1_NeverRejects ==
    \A k \in Launched :
        /\ clientPromises[k].state # "rejected"
        /\ Settled(k) => Outcome(k).clientId = k /\ Outcome(k) = result[k]
        /\ (ClientFailed(k) \/ client[k] = "disconnected" \/ timer[k].state = "fired")
              => Settled(k)

C1_Witness ==
    \E k \in Launched : client[k] = "connectFailed" /\ Settled(k) /\ ~Outcome(k).success

\* C2: this.results never holds more than numberOfClients outcomes; when all
\* sessions settle before the global timer fires it holds exactly one outcome
\* per session, the outcome of session k at position k, whatever the order in
\* which the sessions ended.
C2_OrderedResults ==
    /\ Len(results) <= numberOfClients
    /\ (AllSettled /\ pc \notin {"idle", "launching", "failed"}) =>
          /\ pc = "done"
          /\ Len(results) = numberOfClients
          /\ \A k \in 1..numberOfClients :
                results[k].clientId = k /\ results[k] = Outcome(k)

C2_Witness ==
    /\ pc = "done"
    /\ numberOfClients = 2
    /\ results[2].endTime[1] < results[1].endTime[1]

\* C3 as stated: success, absence of error and presence of duration are
\* equivalent in every returned outcome.
C3_AsStated ==
    \A k \in Launched : Settled(k) =>
        /\ Outcome(k).success <=> (Outcome(k).error = <<>>)
        /\ (Outcome(k).error = <<>>) <=> (Outcome(k).duration # <<>>)

\* C3 amended: in every returned outcome success is equivalent to the absence
\* of error, and endTime and duration are present whether it succeeded or
\* failed, the duration being endTime - startTime.
C3_Amended ==
    \A k \in Launched : Settled(k) =>
        /\ Outcome(k).success <=> (Outcome(k).error = <<>>)
        /\ Outcome(k).endTime # <<>>
        /\ Outcome(k).duration = <<Outcome(k).endTime[1] - Outcome(k).startTime>>

C3_Witness ==
    \E k \in Launched :
        Settled(k) /\ ~Outcome(k).success /\ Outcome(k).duration = <<TickMs>>

\* C4: a returned outcome with success true has no error and has endTime and
\* duration; one with success false has an error.
C4_SuccessFields ==
    \A k \in Launched : Settled(k) =>
        /\ Outcome(k).success =>
              Outcome(k).error = <<>> /\ Outcome(k).endTime # <<>> /\ Outcome(k).duration # <<>>
        /\ ~Outcome(k).success => Outcome(k).error # <<>>

C4_Witness ==
    \E k, j \in Launched :
        Settled(k) /\ Outcome(k).success /\ Settled(j) /\ ~Outcome(j).success

\* C5 as stated: when the global timer fires while the race is awaited, the
\* batch fails with the time-out error, and the outcomes of the sessions that
\* had completed by then are held in this.results and given to printResults.
C5_PartialOutcomesKept ==
    [][(pc = "waiting" /\ pc' = "failed") =>
          /\ thrown' = <<GlobalTimeoutError>>
          /\ \A k \in Launched : Settled(k) =>
                /\ \E p \in 1..Len(results') : results'[p] = Outcome(k)
                /\ Len(reported') > 0
                /\ \E p \in 1..Len(reported'[Len(reported')].results) :
                      reported'[Len(reported')].results[p] = Outcome(k)]_vars

\* C6: if the timer of a session fires while its client sequence is unsettled,
\* the outcome is a failure whose error contains "timed out"; if the client
\* sequence settles first, the outcome is the client's (success when it
\* completed, the text of the thrown value when it threw) and never the
\* time-out message.
C6_RaceOutcome ==
    \A k \in Launched :
        /\ (race[k] = "timer" \/ (timer[k].state = "fired" /\ ClientPending(k))) =>
              /\ Settled(k) /\ race[k] = "timer"
              /\ ~Outcome(k).success
              /\ Outcome(k).error # <<>>
              /\ Includes(Outcome(k).error[1], TimedOutMarker)
        /\ (race[k] = "work" \/ (timer[k].state = "armed" /\ ~ClientPending(k))) =>
              /\ Settled(k) /\ race[k] = "work"
              /\ Outcome(k).error # <<TimeoutError(k).message>>
              /\ client[k] = "disconnected" =>
                    Outcome(k).success /\ Outcome(k).error = <<>>
              /\ ClientFailed(k) =>
                    /\ ~Outcome(k).success
                    /\ \E e \in ThrownValues : Outcome(k).error = <<ErrorText(e)>>

C6_Witness ==
    \E k, j \in Launched :
        /\ race[k] = "timer" /\ ClientPending(k)
        /\ race[j] = "work" /\ ClientFailed(j) /\ timer[j].state = "fired"

SessionState(k) == <<result[k], client[k], timer[k], race[k], clientPromises[k]>>

\* C7: a step changes the state of at most one session, so no session's
\* failure reaches a sibling; a sibling whose client is connecting can still
\* go on; the batch fails only by the global timer's error; and when all sessions
\* settle while the race is awaited the batch resolves, failures or not.
C7_SiblingsUnaffected ==
    /\ [][\A k \in Launched : SessionState(k)' # SessionState(k) =>
             \A j \in Launched \ {k} : SessionState(j)' = SessionState(j)]_vars
    /\ [](\A k \in Launched : (pc # "launching" /\ client[k] = "connecting") =>
             ENABLED ConnectResolved(k))
    /\ [](pc = "failed" => globalTimer.state = "fired" /\ thrown = <<GlobalTimeoutError>>)
    /\ []((AllSettled /\ pc # "launching" /\ globalTimer.state = "armed") =>
             pc = "done" /\ thrown = <<>>)

C7_Witness ==
    /\ pc = "done"
    /\ numberOfClients = 2
    /\ ~results[1].success /\ results[2].success
    /\ results[2].endTime[1] > results[1].endTime[1]

\* C8: with fair timers every session eventually settles and the batch
\* eventually resolves or fails, even if no client operation ever settles; a
\* session is settled once its timer has fired and the batch is over once the
\* global timer has fired.
C8_EventuallySettles ==
    /\ <>[](pc \in {"done", "failed"})
    /\ <>[]AllSettled
    /\ [](\A k \in Launched : timer[k].state = "fired" => Settled(k))
    /\ [](globalTimer.state = "fired" => pc \in {"done", "failed"})

C8_Witness ==
    /\ numberOfClients = 1
    /\ \A k \in Launched : client[k] = "connecting"
    /\ AllSettled
    /\ pc = "done"

\* C9 as stated: once the batch is over, on either path, printResults has
\* been called with the available outcomes and the elapsed time; on the
\* time-out path it was called before the error was rethrown.
C9_ReporterCalled ==
    /\ pc \in {"done", "failed"} =>
          Len(reported) = 1 /\ reported[1].results = results
    /\ thrown # <<>> => Len(reported) = 1

\* C10 as stated: with numberOfClients = 0 the batch is over as soon as the
\* race is awaited, with an empty result, and the report shows 0/0 with a
\* success rate that is a number.
C10_EmptyBatch ==
    (numberOfClients = 0 /\ pc \notin {"idle", "launching"}) =>
        /\ pc = "done"
        /\ results = <<>>
        /\ Len(reported) = 1
        /\ reported[1].totalTime = 0
        /\ reported[1].successful = 0 /\ reported[1].total = 0
        /\ ~reported[1].rate.nan

\* C11: the entry point exits with code 1 when the audio file is missing,
\* and then nothing was launched; it exits with code 1 when the batch fails
\* with the global time-out; process.exit(1) is called in no other run,
\* whatever the outcomes of the sessions.
C11_ExitCode ==
    /\ ~audioFileExists =>
          /\ Launched = {} /\ pc = "idle" /\ globalTimer.state = "unarmed"
          /\ exitCode = <<>> => (ENABLED AudioFileMissing /\ ~ENABLED Start)
    /\ pc = "failed" => exitCode = <<1>>
    /\ exitCode # <<>> =>
          /\ exitCode = <<1>>
          /\ ~audioFileExists \/ (pc = "failed" /\ thrown = <<GlobalTimeoutError>>)
    /\ (pc = "done" /\ \A k \in 1..Len(results) : ~results[k].success) => exitCode = <<>>

C11_Witness ==
    /\ exitCode = <<1>>
    /\ pc = "failed"
    /\ \E k \in Launched : Settled(k) /\ ~Outcome(k).success

\* the text before the first ':' of m, said without computing it
IsPrefixBeforeColon(b, m) ==
    /\ Len(b) <= Len(m)
    /\ \A h \in 1..Len(b) : b[h] = m[h] /\ b[h] # ":"
    /\ Len(b) = Len(m) \/ m[Len(b) + 1] = ":"

\* the bucket C12 gives to the error text m of a failed outcome
ClaimedBucket(m) ==
    CASE m = <<>> -> UnknownBucket
      [] m # <<>> /\ Includes(m, TimedOutMarker) -> TimeoutBucket
      [] m # <<>> /\ ~Includes(m, TimedOutMarker) /\ Includes(m, WebSocketMarker) ->
            WebSocketErrorBucket
      [] m # <<>> /\ ~Includes(m, TimedOutMarker) /\ ~Includes(m, WebSocketMarker)
            /\ Includes(m, ServerNotAvailableMarker) -> ServerUnavailableBucket
      [] OTHER -> CHOOSE b \in {SubSeq(m, 1, n) : n \in 0..Len(m)} : IsPrefixBeforeColon(b, m)

FailedAt(rs) == {k \in 1..Len(rs) : ~rs[k].success}

\* C12: every failed outcome is counted in exactly one bucket, the first that
\* matches of: "timed out" -> "Timeout", "WebSocket" -> "WebSocket Error",
\* "Server is not available" -> "Server Unavailable", else the text before
\* the first ':', and "Unknown" for an empty message.
C12_Classification ==
    \A c \in 1..Len(reported) :
        LET rs == reported[c].results
            buckets == {ClaimedBucket(rs[k].error[1]) : k \in FailedAt(rs)}
        IN  /\ DOMAIN reported[c].errorCounts = buckets
            /\ \A b \in buckets :
                  reported[c].errorCounts[b] =
                      Cardinality({k \in FailedAt(rs) : ClaimedBucket(rs[k].error[1]) = b})

C12_Witness ==
    /\ Len(reported) = 1
    /\ \E k \in FailedAt(results) : results[k].error = <<WebSocketTimedOutText>>
    /\ \E k \in FailedAt(results) : results[k].error = <<ResetText>>
    /\ DOMAIN reported[1].errorCounts = {TimeoutBucket, <<"E", "C", "O", "N", "N", "R", "E", "S", "E", "T">>}

\* C13 as stated: with session 2 failing on "Connection refused" and the
\* other sessions succeeding, the result has one entry per session, the
\* histogram counts the failure under the transport-error bucket and the
\* recommendation is the second tier ("good, check resources").
C13_AsStated ==
    pc = "done" =>
        /\ Len(results) = ScenarioClients
        /\ reported[1].errorCounts = (WebSocketErrorBucket :> 1)
        /\ reported[1].recommendation = "good"

\* C13 amended: the result has one entry per session, the histogram counts
\* the failure under "Connection refused" (the message has no marker and no
\* ':'), and with 2 of 3 successes (below 80%, at least 50%) the
\* recommendation is the third tier ("moderate performance").
C13_Amended ==
    pc = "done" =>
        /\ Len(results) = ScenarioClients
        /\ Len(reported) = 1
        /\ reported[1].successful = ScenarioClients - 1 /\ reported[1].failed = 1
        /\ reported[1].errorCounts = (ConnectionRefusedText :> 1)
        /\ reported[1].recommendation = "moderate"

C13_Witness ==
    /\ pc = "done"
    /\ ~results[2].success /\ results[2].error = <<ConnectionRefusedText>>
    /\ \A k \in 1..Len(results) : k # 2 => results[k].success
    /\ reported[1].rate.tenths = (2000 * (ScenarioClients - 1) + ScenarioClients)
                                     \div (2 * ScenarioClients)

\* C14: the result object of a session is written exactly once after its
\* creation, in the step that decides the race of the session, and never
\* afterwards: a timer served after the success, and client work ending
\* after the timeout, leave success, error, endTime and duration as they are.
C14_WrittenOnce ==
    /\ [](\A k \in Launched :
            race[k] = "pending" => result[k] = NewResult(k, result[k].startTime))
    /\ [][\A k \in Launched :
            /\ result'[k] # result[k] <=> (race[k] = "pending" /\ race'[k] # "pending")
            /\ race[k] # "pending" => race'[k] = race[k]]_vars

C14_Witness ==
    /\ \E k \in Launched :
          /\ race[k] = "work" /\ result[k].success
          /\ timer[k].state = "fired"
    /\ \E k \in Launched :
          /\ race[k] = "timer" /\ result[k].error = <<TimeoutError(k).message>>
          /\ client[k] \in {"disconnected", "processFailed", "disconnectFailed"}

\* C15: all sessions are launched before anything else happens: while the
\* loop runs every launched session is unsettled with connect() issued and
\* the next launch is never blocked; once the race is awaited or any session
\* is settled, every session 1..N has its startTime and its connect() call;
\* sessions are launched in increasing id order.
C15_AllLaunchedFirst ==
    /\ pc = "launching" =>
          /\ \A k \in Launched :
                race[k] = "pending" /\ client[k] = "connecting" /\ calls[k] = <<"connect">>
          /\ i <= numberOfClients => ENABLED Launch
    /\ (pc \in {"waiting", "done", "failed"} \/ \E k \in Launched : Settled(k)) =>
          /\ Launched = 1..numberOfClients
          /\ \A k \in Launched :
                /\ Head(calls[k]) = "connect"
                /\ startTime <= result[k].startTime /\ result[k].startTime <= now
    /\ pc # "idle" => i = Len(result) + 1
    /\ \A k \in Launched : result[k].clientId = k

C15_Witness ==
    /\ numberOfClients = MaxClients
    /\ pc = "waiting"
    /\ \E k \in Launched : Settled(k)
    /\ \E k \in Launched : ~Settled(k) /\ client[k] = "connecting"

\* C16: this.results is written only by runStressTest, by one assignment
\* of the values of Promise.all in the step in which the last session
\* settles and the race is won by Promise.all; the settling of a session
\* that is not the last leaves it unchanged.
C16_SingleWriter ==
    /\ [](pc # "done" => results = <<>>)
    /\ [][results' # results =>
            /\ results = <<>>
            /\ pc # "done" /\ pc' = "done"
            /\ Len(clientPromises') = numberOfClients
            /\ \A k \in 1..numberOfClients : clientPromises'[k].state = "fulfilled"
            /\ results' = [k \in 1..numberOfClients |-> clientPromises'[k].value[1]]]_vars

C16_Witness ==
    /\ pc = "waiting"
    /\ results = <<>>
    /\ \E k \in Launched : Settled(k) /\ race[k] = "work" /\ Outcome(k).success
    /\ \E k \in Launched : ~Settled(k)

\* C17: neither deadline cancels client work: the step of a timer leaves
\* every client and its calls as they are, the client of a session recorded
\* as timed out can still complete connect() and processAudioFile(), and so
\* can the clients of the launched sessions after the global timeout.
C17_NoCancellation ==
    /\ [](\A k \in Launched :
            (race[k] = "timer" \/ pc = "failed") =>
                /\ client[k] = "connecting" => ENABLED ConnectResolved(k)
                /\ client[k] = "processing" => ENABLED ProcessResolved(k))
    /\ [][((timer' # timer /\ Len(timer') = Len(timer))
             \/ (globalTimer.state = "armed" /\ globalTimer'.state = "fired"))
            => (client' = client /\ calls' = calls)]_vars

\* a session recorded as timed out whose client completed afterwards, in a
\* batch that failed on the global timeout
C17_Witness ==
    /\ pc = "failed" /\ thrown = <<GlobalTimeoutError>>
    /\ \E k \in Launched :
          /\ race[k] = "timer"
          /\ ~result[k].success /\ result[k].error = <<TimeoutError(k).message>>
          /\ client[k] = "disconnected"
          /\ calls[k] = <<"connect", "connected", "process", "processed", "disconnect">>

RECURSIVE SumOfCounts(_, _)
SumOfCounts(m, bs) ==
    IF bs = {} THEN 0
    ELSE LET b == CHOOSE x \in bs : TRUE
         IN  m[b] + SumOfCounts(m, bs \ {b})

\* C18: for every outcome set given to printResults, the success count is
\* the number of outcomes with success = true, the failure count the number
\* with success = false, the two sum to the size of the set, and the counts
\* of the failure histogram sum to the failure count, whatever the messages.
C18_Counting ==
    \A c \in 1..Len(reported) :
        LET rep == reported[c]
            rs == rep.results
        IN  /\ rep.successful = Cardinality({k \in 1..Len(rs) : rs[k].success})
            /\ rep.failed = Cardinality(FailedAt(rs))
            /\ rep.successful + rep.failed = Len(rs)
            /\ SumOfCounts(rep.errorCounts, DOMAIN rep.errorCounts) = rep.failed

\* two failures with different messages that fall into one bucket
C18_Witness ==
    /\ Len(reported) = 1
    /\ reported[1].failed = 2
    /\ results[1].error # results[2].error
    /\ Cardinality(DOMAIN reported[1].errorCounts) = 1

CalledOn(k) == {calls[k][n] : n \in 1..Len(calls[k])}

\* C20: disconnect() is called on the client of a session only after its
\* connect() and then its processAudioFile() completed without error; a
\* client whose connect() or processAudioFile() threw or has not completed
\* is never disconnected, also when its session is recorded as timed out.
C20_DisconnectAfterWork ==
    \A k \in Launched :
        /\ "disconnect" \in CalledOn(k) =>
              /\ Len(calls[k]) >= 5
              /\ SubSeq(calls[k], 1, 5) =
                    <<"connect", "connected", "process", "processed", "disconnect">>
              /\ client[k] \in {"disconnected", "disconnectFailed"}
        /\ client[k] \in {"connecting", "processing", "connectFailed", "processFailed"} =>
              "disconnect" \notin CalledOn(k)
        /\ Cardinality({n \in 1..Len(calls[k]) : calls[k][n] = "disconnect"}) <= 1

\* one client disconnected after its work, another hung and recorded as
\* timed out without a disconnect() call
C20_Witness ==
    /\ \E k \in Launched : client[k] = "disconnected" /\ "disconnect" \in CalledOn(k)
    /\ \E k \in Launched :
          /\ race[k] = "timer" /\ result[k].error = <<TimeoutError(k).message>>
          /\ ClientPending(k)
          /\ "disconnect" \notin CalledOn(k)

====
